---- MODULE Spec2Model ----
(***************************************************************************)
(* Model of the blog application: the Post / Category / Comment tables of  *)
(* blog/models.py, the request handlers of blog/views.py and the admin     *)
(* registrations of blog/admin.py.  Every handler is one action; the       *)
(* variable `response` holds the response of the last handled request.     *)
(***************************************************************************)
EXTENDS Integers, Sequences, FiniteSets, TLC

\* ---------------------------------------------------------------- bounds
MaxTime == 1
MaxPosts == 2
MaxCategories == 1
MaxComments == 1
MaxPage == 2

\* ------------------------------------------------------- program constants
OBJECTS_PER_PAGE == 10

Users == {"alice", "bob"}
Anonymous == "AnonymousUser"
Actors == Users \cup {Anonymous}
Slugs == {"travel", "food"}
NoCategory == 0
NoPage == 0
Texts == {"t1", "t2"}
Names == {"n1", "n2", "n3"}
Methods == {"GET", "POST"}

VARIABLES now, import_time, seq, posts, categories, comments, profile, response

vars == <<now, import_time, seq, posts, categories, comments, profile, response>>

\* ------------------------------------------------------------------ helpers
Times == 0..MaxTime
PageParams == {NoPage} \cup (1..MaxPage)

is_authenticated(user) == user \in Users

NoLocation == [name |-> "", post_id |-> 0, username |-> ""]
DetailUrl(post_id) == [name |-> "blog:post_detail", post_id |-> post_id, username |-> ""]
ProfileUrl(username) == [name |-> "blog:profile", post_id |-> 0, username |-> username]
IndexUrl == [name |-> "blog:index", post_id |-> 0, username |-> ""]
LoginUrl == [name |-> "login", post_id |-> 0, username |-> ""]

BlankResponse ==
    [view |-> "", method |-> "GET", user |-> Anonymous, post_id |-> 0,
     comment_id |-> 0, category_id |-> 0, slug |-> "", username |-> "",
     page |-> NoPage, status |-> 0, location |-> NoLocation, by |-> "",
     number |-> 0, object_list |-> <<>>]

Redirect(req, by, location) ==
    [req EXCEPT !.status = 302, !.by = by, !.location = location]
NotFound(req, by) == [req EXCEPT !.status = 404, !.by = by]
Render(req, by) == [req EXCEPT !.status = 200, !.by = by]
RenderPage(req, by, page) ==
    [req EXCEPT !.status = 200, !.by = by, !.number = page.number,
                !.object_list = page.object_list]

\* ------------------------------------------------------------ the database
Remove(table, id) == [k \in (DOMAIN table) \ {id} |-> table[k]]
Insert(table, id, row) == [k \in (DOMAIN table) \cup {id} |-> IF k = id THEN row ELSE table[k]]

\* Post.Meta.ordering = ('-pub_date', 'title'); titles are not modelled and
\* ties are broken by primary key.
Before(p, q) ==
    \/ posts[p].pub_date > posts[q].pub_date
    \/ posts[p].pub_date = posts[q].pub_date /\ p < q

RECURSIVE OrderBy(_)
OrderBy(ids) ==
    IF ids = {} THEN <<>>
    ELSE LET first == CHOOSE p \in ids : \A q \in ids \ {p} : Before(p, q)
         IN <<first>> \o OrderBy(ids \ {first})

\* django.core.paginator.Paginator with orphans = 0, allow_empty_first_page
num_pages(count) ==
    IF count = 0 THEN 1 ELSE (count + OBJECTS_PER_PAGE - 1) \div OBJECTS_PER_PAGE

PageOf(list, number) ==
    LET bottom == (number - 1) * OBJECTS_PER_PAGE
        top == IF bottom + OBJECTS_PER_PAGE > Len(list) THEN Len(list)
               ELSE bottom + OBJECTS_PER_PAGE
    IN [number |-> number, object_list |-> SubSeq(list, bottom + 1, top)]

ValidNumber(list, number) == number >= 1 /\ number <= num_pages(Len(list))

\* Paginator.get_page: a missing page parameter gives page 1, an out-of-range
\* number gives the last page.
get_page(list, param) ==
    IF param = NoPage THEN PageOf(list, 1)
    ELSE IF ValidNumber(list, param) THEN PageOf(list, param)
    ELSE PageOf(list, num_pages(Len(list)))

\* ---------------------------------------------------------------- querysets
CategoryPublished(p) ==
    /\ posts[p].category \in DOMAIN categories
    /\ categories[posts[p].category].is_published

\* HomePage.queryset: the filter values are computed when the class body runs.
HomePageQueryset ==
    {p \in DOMAIN posts :
        /\ posts[p].pub_date <= import_time
        /\ posts[p].is_published
        /\ CategoryPublished(p)}

\* ProfileView.get_context_data with the branch for authenticated viewers lost
ProfilePostsFiltered(user, username) ==
    {p \in DOMAIN posts :
        /\ posts[p].author = username
        /\ posts[p].is_published
        /\ posts[p].pub_date <= now}

\* ProfileView.get_context_data: the posts of the profile's owner
ProfilePosts(user, username) ==
    IF is_authenticated(user)
    THEN {p \in DOMAIN posts : posts[p].author = username}
    ELSE {p \in DOMAIN posts :
            /\ posts[p].author = username
            /\ posts[p].is_published
            /\ posts[p].pub_date <= now}

\* CategoryListView.queryset without its filter
CategoryQuerysetAll == DOMAIN categories

\* CategoryListView.queryset
CategoryQueryset == {c \in DOMAIN categories : categories[c].is_published}

\* CategoryListView.get_context_data: the posts of the category with this slug
CategoryPosts(slug) ==
    {p \in DOMAIN posts :
        /\ posts[p].category \in DOMAIN categories
        /\ categories[posts[p].category].slug = slug
        /\ posts[p].is_published
        /\ posts[p].pub_date <= now}

\* ------------------------------------------------------------------- guards
\* PostEditMixin.dispatch placed after LoginRequiredMixin in the bases
PostEditDeniedAfterLogin(user, post_id) ==
    is_authenticated(user) /\ posts[post_id].author # user

\* PostEditMixin.dispatch: the test that sends the actor away
PostEditDenied(user, post_id) == posts[post_id].author # user

\* CommentEditMixin.dispatch: the test that sends the actor away
CommentEditDenied(user, comment_id) == comments[comment_id].author # user

\* CommentEditMixin.dispatch: where a denied actor is sent
CommentDeniedTarget(url_post_id, comment_id) == DetailUrl(url_post_id)

\* LoginRequiredMixin.dispatch
LoginRequired(user) == ~is_authenticated(user)

\* --------------------------------------------------------------- on_delete
\* Post.category with on_delete = DO_NOTHING
PostsAfterCategoryDeleteDoNothing(category_id) == posts

\* Post.category: on_delete = SET_NULL
PostsAfterCategoryDelete(category_id) ==
    [p \in DOMAIN posts |->
        IF posts[p].category = category_id
        THEN [posts[p] EXCEPT !.category = NoCategory]
        ELSE posts[p]]

\* Comment.posts: on_delete = CASCADE
CommentsAfterPostDelete(post_id) ==
    [c \in {k \in DOMAIN comments : comments[k].posts # post_id} |-> comments[c]]

\* --------------------------------------------------------------------- Init
Init ==
    /\ now = 0
    /\ import_time = 0
    /\ seq = [post |-> 0, category |-> 0, comment |-> 0]
    /\ posts = <<>>
    /\ categories = <<>>
    /\ comments = <<>>
    /\ profile = [u \in Users |-> "n1"]
    /\ response = BlankResponse

Request(view, method, user) ==
    [BlankResponse EXCEPT !.view = view, !.method = method, !.user = user]

\* ------------------------------------------------------------ time, startup
\* The clock advances between requests; `response` is the response of the
\* request handled by the last step, so it is cleared by a step that handles
\* none.
Tick ==
    /\ now < MaxTime
    /\ now' = now + 1
    /\ response' = BlankResponse
    /\ UNCHANGED <<import_time, seq, posts, categories, comments, profile>>

\* The class body of HomePage runs when blog.views is imported (server start).
ImportViews ==
    /\ import_time # now
    /\ import_time' = now
    /\ response' = BlankResponse
    /\ UNCHANGED <<now, seq, posts, categories, comments, profile>>

\* -------------------------------------------------------------------- admin
AdminCategoryAdd ==
    \E slug \in Slugs, is_published \in BOOLEAN :
        /\ seq.category < MaxCategories
        /\ \A c \in DOMAIN categories : categories[c].slug # slug
        /\ LET id == seq.category + 1 IN
            /\ categories' = Insert(categories, id,
                                    [slug |-> slug, is_published |-> is_published])
            /\ seq' = [seq EXCEPT !.category = id]
            /\ response' = [Request("admin:category_add", "POST", Anonymous)
                                EXCEPT !.category_id = id, !.status = 302]
        /\ UNCHANGED <<now, import_time, posts, comments, profile>>

AdminCategoryChange ==
    \E c \in DOMAIN categories, is_published \in BOOLEAN :
        /\ categories[c].is_published # is_published
        /\ categories' = [categories EXCEPT ![c].is_published = is_published]
        /\ response' = [Request("admin:category_change", "POST", Anonymous)
                            EXCEPT !.category_id = c, !.status = 302]
        /\ UNCHANGED <<now, import_time, seq, posts, comments, profile>>

AdminCategoryDelete ==
    \E c \in DOMAIN categories :
        /\ categories' = Remove(categories, c)
        /\ posts' = PostsAfterCategoryDelete(c)
        /\ response' = [Request("admin:category_delete", "POST", Anonymous)
                            EXCEPT !.category_id = c, !.status = 302]
        /\ UNCHANGED <<now, import_time, seq, comments, profile>>

\* ------------------------------------------------------------ listing views
\* HomePage (ListView, paginate_by): MultipleObjectMixin.paginate_queryset
\* answers an invalid page number with Http404.
HomePage ==
    \E user \in Actors, page \in PageParams :
        LET req == [Request("blog:index", "GET", user) EXCEPT !.page = page]
            list == OrderBy(HomePageQueryset)
            number == IF page = NoPage THEN 1 ELSE page
        IN  /\ response' = IF ValidNumber(list, number)
                           THEN RenderPage(req, "HomePage", PageOf(list, number))
                           ELSE NotFound(req, "HomePage")
            /\ UNCHANGED <<now, import_time, seq, posts, categories, comments, profile>>

ProfileView ==
    \E user \in Actors, username \in Users, page \in PageParams :
        LET req == [Request("blog:profile", "GET", user)
                        EXCEPT !.username = username, !.page = page]
            list == OrderBy(ProfilePosts(user, username))
        IN  /\ response' = RenderPage(req, "ProfileView", get_page(list, page))
            /\ UNCHANGED <<now, import_time, seq, posts, categories, comments, profile>>

CategoryListView ==
    \E user \in Actors, slug \in Slugs, page \in PageParams :
        LET req == [Request("blog:category_posts", "GET", user)
                        EXCEPT !.slug = slug, !.page = page]
            list == OrderBy(CategoryPosts(slug))
        IN  /\ response' =
                IF \E c \in CategoryQueryset : categories[c].slug = slug
                THEN RenderPage(req, "CategoryListView", get_page(list, page))
                ELSE NotFound(req, "CategoryListView")
            /\ UNCHANGED <<now, import_time, seq, posts, categories, comments, profile>>

\* -------------------------------------------------------------------- posts
\* Post.category has null=True but not blank=True, so a form requires a
\* category; a POST naming no existing category re-renders the form.
PostCreatView ==
    \E user \in Actors, method \in Methods, is_published \in BOOLEAN,
       pub_date \in Times, category \in 1..MaxCategories :
        LET req == Request("blog:create_post", method, user)
            id == seq.post + 1
        IN  /\ seq.post < MaxPosts
            /\ IF LoginRequired(user)
               THEN /\ response' = Redirect(req, "LoginRequiredMixin", LoginUrl)
                    /\ UNCHANGED <<posts, seq>>
               ELSE IF method = "GET" \/ category \notin DOMAIN categories
               THEN /\ response' = Render(req, "CreateView")
                    /\ UNCHANGED <<posts, seq>>
               ELSE /\ posts' = Insert(posts, id,
                            [author |-> user, is_published |-> is_published,
                             pub_date |-> pub_date, created_at |-> now,
                             category |-> category])
                    /\ seq' = [seq EXCEPT !.post = id]
                    /\ response' = Redirect([req EXCEPT !.post_id = id],
                                            "CreateView", ProfileUrl(user))
            /\ UNCHANGED <<now, import_time, categories, comments, profile>>

PostEditView ==
    \E user \in Actors, post_id \in 1..MaxPosts, method \in Methods,
       is_published \in BOOLEAN, pub_date \in Times, category \in 1..MaxCategories :
        LET req == [Request("blog:edit_post", method, user) EXCEPT !.post_id = post_id]
        IN  /\ IF post_id \notin DOMAIN posts
               THEN /\ response' = NotFound(req, "PostEditMixin")
                    /\ UNCHANGED posts
               ELSE IF PostEditDenied(user, post_id)
               THEN /\ response' = Redirect(req, "PostEditMixin", DetailUrl(post_id))
                    /\ UNCHANGED posts
               ELSE IF LoginRequired(user)
               THEN /\ response' = Redirect(req, "LoginRequiredMixin", LoginUrl)
                    /\ UNCHANGED posts
               ELSE IF method = "GET" \/ category \notin DOMAIN categories
               THEN /\ response' = Render(req, "UpdateView")
                    /\ UNCHANGED posts
               ELSE /\ posts' = [posts EXCEPT ![post_id].is_published = is_published,
                                              ![post_id].pub_date = pub_date,
                                              ![post_id].category = category]
                    /\ response' = Redirect(req, "UpdateView", DetailUrl(post_id))
            /\ UNCHANGED <<now, import_time, seq, categories, comments, profile>>

PostDeleteView ==
    \E user \in Actors, post_id \in 1..MaxPosts, method \in Methods :
        LET req == [Request("blog:delete_post", method, user) EXCEPT !.post_id = post_id]
        IN  /\ IF post_id \notin DOMAIN posts
               THEN /\ response' = NotFound(req, "PostEditMixin")
                    /\ UNCHANGED <<posts, comments>>
               ELSE IF PostEditDenied(user, post_id)
               THEN /\ response' = Redirect(req, "PostEditMixin", DetailUrl(post_id))
                    /\ UNCHANGED <<posts, comments>>
               ELSE IF LoginRequired(user)
               THEN /\ response' = Redirect(req, "LoginRequiredMixin", LoginUrl)
                    /\ UNCHANGED <<posts, comments>>
               ELSE IF method = "GET"
               THEN /\ response' = Render(req, "DeleteView")
                    /\ UNCHANGED <<posts, comments>>
               ELSE /\ posts' = Remove(posts, post_id)
                    /\ comments' = CommentsAfterPostDelete(post_id)
                    /\ response' = Redirect(req, "DeleteView", IndexUrl)
            /\ UNCHANGED <<now, import_time, seq, categories, profile>>

\* ----------------------------------------------------------------- comments
CommentCreateView ==
    \E user \in Actors, post_id \in 1..MaxPosts, method \in Methods, text \in Texts :
        LET req == [Request("blog:add_comment", method, user) EXCEPT !.post_id = post_id]
            id == seq.comment + 1
        IN  /\ seq.comment < MaxComments
            /\ IF post_id \notin DOMAIN posts
               THEN /\ response' = NotFound(req, "CommentCreateView")
                    /\ UNCHANGED <<comments, seq>>
               ELSE IF LoginRequired(user)
               THEN /\ response' = Redirect(req, "LoginRequiredMixin", LoginUrl)
                    /\ UNCHANGED <<comments, seq>>
               ELSE IF method = "GET"
               THEN /\ response' = Render(req, "CreateView")
                    /\ UNCHANGED <<comments, seq>>
               ELSE /\ comments' = Insert(comments, id,
                            [text |-> text, posts |-> post_id, author |-> user])
                    /\ seq' = [seq EXCEPT !.comment = id]
                    /\ response' = Redirect([req EXCEPT !.comment_id = id],
                                            "CreateView", DetailUrl(post_id))
            /\ UNCHANGED <<now, import_time, posts, categories, profile>>

EditComment ==
    \E user \in Actors, post_id \in 1..MaxPosts, comment_id \in 1..MaxComments,
       method \in Methods, text \in Texts :
        LET req == [Request("blog:edit_comment", method, user)
                        EXCEPT !.post_id = post_id, !.comment_id = comment_id]
        IN  /\ IF comment_id \notin DOMAIN comments
               THEN /\ response' = NotFound(req, "CommentEditMixin")
                    /\ UNCHANGED comments
               ELSE IF CommentEditDenied(user, comment_id)
               THEN /\ response' = Redirect(req, "CommentEditMixin",
                                            CommentDeniedTarget(post_id, comment_id))
                    /\ UNCHANGED comments
               ELSE IF LoginRequired(user)
               THEN /\ response' = Redirect(req, "LoginRequiredMixin", LoginUrl)
                    /\ UNCHANGED comments
               ELSE IF method = "GET"
               THEN /\ response' = Render(req, "UpdateView")
                    /\ UNCHANGED comments
               ELSE /\ comments' = [comments EXCEPT ![comment_id].text = text]
                    /\ response' = Redirect(req, "UpdateView",
                                            DetailUrl(comments[comment_id].posts))
            /\ UNCHANGED <<now, import_time, seq, posts, categories, profile>>

CommentDeleteView ==
    \E user \in Actors, post_id \in 1..MaxPosts, comment_id \in 1..MaxComments,
       method \in Methods :
        LET req == [Request("blog:delete_comment", method, user)
                        EXCEPT !.post_id = post_id, !.comment_id = comment_id]
        IN  /\ IF comment_id \notin DOMAIN comments
               THEN /\ response' = NotFound(req, "CommentEditMixin")
                    /\ UNCHANGED comments
               ELSE IF CommentEditDenied(user, comment_id)
               THEN /\ response' = Redirect(req, "CommentEditMixin",
                                            CommentDeniedTarget(post_id, comment_id))
                    /\ UNCHANGED comments
               ELSE IF LoginRequired(user)
               THEN /\ response' = Redirect(req, "LoginRequiredMixin", LoginUrl)
                    /\ UNCHANGED comments
               ELSE IF method = "GET"
               THEN /\ response' = Render(req, "DeleteView")
                    /\ UNCHANGED comments
               ELSE /\ comments' = Remove(comments, comment_id)
                    /\ response' = Redirect(req, "DeleteView",
                                            DetailUrl(comments[comment_id].posts))
            /\ UNCHANGED <<now, import_time, seq, posts, categories, profile>>

\* ------------------------------------------------------------------ profile
ProfileEditView ==
    \E user \in Actors, username \in Users, method \in Methods, name \in Names :
        LET req == [Request("blog:edit_profile", method, user)
                        EXCEPT !.username = username]
        IN  /\ IF LoginRequired(user)
               THEN /\ response' = Redirect(req, "LoginRequiredMixin", LoginUrl)
                    /\ UNCHANGED profile
               ELSE IF method = "GET"
               THEN /\ response' = Render(req, "UpdateView")
                    /\ UNCHANGED profile
               ELSE /\ profile' = [profile EXCEPT ![username] = name]
                    /\ response' = Redirect(req, "UpdateView", ProfileUrl(username))
            /\ UNCHANGED <<now, import_time, seq, posts, categories, comments>>

\* ----------------------------------------------------------- specifications
\* The visibility filter: the public and profile listings over time.
NextListing ==
    \/ Tick
    \/ ImportViews
    \/ AdminCategoryAdd
    \/ AdminCategoryChange
    \/ AdminCategoryDelete
    \/ PostCreatView
    \/ HomePage
    \/ ProfileView
    \/ CategoryListView

SpecListing == Init /\ [][NextListing]_vars

\* The ownership guard on posts, and deletion of categories, posts, comments.
NextPosts ==
    \/ AdminCategoryAdd
    \/ AdminCategoryDelete
    \/ PostCreatView
    \/ PostEditView
    \/ PostDeleteView
    \/ CommentCreateView
    \/ CommentDeleteView

SpecPosts == Init /\ [][NextPosts]_vars

\* The ownership guard on comments.
NextComments ==
    \/ AdminCategoryAdd
    \/ PostCreatView
    \/ CommentCreateView
    \/ EditComment
    \/ CommentDeleteView

SpecComments == Init /\ [][NextComments]_vars

\* The profile pages.
NextProfile ==
    \/ ProfileView
    \/ ProfileEditView

SpecProfile == Init /\ [][NextProfile]_vars

\* The whole application.
Next ==
    \/ NextListing
    \/ NextPosts
    \/ NextComments
    \/ NextProfile

Spec == Init /\ [][Next]_vars

\* =================================================================== claims
Range(list) == {list[i] : i \in DOMAIN list}

Listed(p) == p \in Range(response.object_list)

\* A post is live: published, not future-dated, category absent or published.
Live(p) ==
    /\ posts[p].is_published
    /\ posts[p].pub_date <= now
    /\ (posts[p].category = NoCategory \/ CategoryPublished(p))

HomePageServed == response.view = "blog:index" /\ response.status = 200

\* C1: a post appears in the homepage listing if and only if it is published,
\* its pub_date is not after the time of the request, and its category is
\* null or published.
C1_PublicListingIffLive ==
    HomePageServed => \A p \in DOMAIN posts : Listed(p) <=> Live(p)

\* C2: a published post with a published or absent category and a pub_date
\* later than its creation time is excluded from every homepage listing served
\* before pub_date and included in every one served at or after pub_date.
C2_ScheduledPublication ==
    HomePageServed =>
        \A p \in DOMAIN posts :
            (/\ posts[p].is_published
             /\ (posts[p].category = NoCategory \/ CategoryPublished(p))
             /\ posts[p].pub_date > posts[p].created_at)
            => (Listed(p) <=> posts[p].pub_date <= now)

\* C3: the profile page of a user, requested by an anonymous viewer or by
\* another user, lists only live posts of the profile's owner.
C3_ProfileForOthersOnlyLive ==
    (response.view = "blog:profile" /\ response.user # response.username) =>
        \A p \in Range(response.object_list) :
            posts[p].author = response.username /\ Live(p)

CommentRequest(r) == r.view \in {"blog:edit_comment", "blog:delete_comment"}

\* C4: an edit or delete request on an existing comment by anyone but its
\* author is answered with a redirect to the detail page of the comment's own
\* parent post, whatever post id the URL carries, and changes no comment.
C4_CommentGuardRedirectsToParent ==
    [][(/\ CommentRequest(response')
        /\ response'.comment_id \in DOMAIN comments
        /\ comments[response'.comment_id].author # response'.user)
       => (/\ response'.status = 302
           /\ response'.location = DetailUrl(comments[response'.comment_id].posts)
           /\ comments' = comments)]_vars

PostRequest(r) == r.view \in {"blog:edit_post", "blog:delete_post"}

\* C5: an edit or delete request on an existing post reaches the form or the
\* mutation if and only if the actor is the post's author; any other actor,
\* logged in or not, is redirected by the ownership check to the post's own
\* detail page, and nothing is changed.
C5_PostGuard ==
    [][(PostRequest(response') /\ response'.post_id \in DOMAIN posts)
       => LET p == response'.post_id
              actor == response'.user
          IN  /\ response'.by \in {"UpdateView", "DeleteView"} <=> posts[p].author = actor
              /\ posts[p].author # actor =>
                    /\ response'.status = 302
                    /\ response'.by = "PostEditMixin"
                    /\ response'.location = DetailUrl(p)
                    /\ posts' = posts
                    /\ comments' = comments]_vars

\* C5 witness: an anonymous actor posted an edit of an existing post and was
\* sent to the post's detail page, not to the login page.
C5_Witness ==
    /\ response.view = "blog:edit_post"
    /\ response.method = "POST"
    /\ response.user = Anonymous
    /\ response.post_id \in DOMAIN posts
    /\ response.location = DetailUrl(response.post_id)

\* The number of posts the listing of the last response was drawn from.
ListedCount ==
    IF response.view = "blog:index" THEN Cardinality(HomePageQueryset)
    ELSE IF response.view = "blog:profile"
    THEN Cardinality(ProfilePosts(response.user, response.username))
    ELSE Cardinality(CategoryPosts(response.slug))

\* C6: on the homepage, a profile page and the page of a published category,
\* a page number beyond the last page returns the last page, not an error.
C6_PageBeyondLastClamps ==
    (/\ response.view \in {"blog:index", "blog:profile", "blog:category_posts"}
     /\ response.view = "blog:category_posts" =>
            \E c \in CategoryQueryset : categories[c].slug = response.slug
     /\ ListedCount >= 1
     /\ response.page > num_pages(ListedCount))
    => (response.status = 200 /\ response.number = num_pages(ListedCount))

\* C7: the detail page of a category that is not published is not found, for
\* every viewer, and no post list is produced.
C7_UnpublishedCategoryNotFound ==
    response.view = "blog:category_posts" =>
        \A c \in DOMAIN categories :
            (categories[c].slug = response.slug /\ ~categories[c].is_published)
            => (response.status = 404 /\ response.object_list = <<>>)

\* C7 witness: the page of an existing, unpublished category that holds a post
\* which is published and not future-dated was requested, and not found.
C7_Witness ==
    /\ response.view = "blog:category_posts"
    /\ response.status = 404
    /\ \E p \in DOMAIN posts :
        /\ posts[p].category \in DOMAIN categories
        /\ categories[posts[p].category].slug = response.slug
        /\ ~categories[posts[p].category].is_published
        /\ posts[p].is_published
        /\ posts[p].pub_date <= now

OwnPosts(username) == {p \in DOMAIN posts : posts[p].author = username}

\* C8: the profile page of a user requested by that user lists every post of
\* the user, whatever its published flag, pub_date and category (as long as
\* the posts fit on one page).
C8_OwnProfileShowsAll ==
    (/\ response.view = "blog:profile"
     /\ response.user = response.username
     /\ Cardinality(OwnPosts(response.username)) <= OBJECTS_PER_PAGE)
    => Range(response.object_list) = OwnPosts(response.username)

\* C8 witness: the owner's profile lists a draft dated in the future whose
\* category was deleted.
C8_Witness ==
    /\ response.view = "blog:profile"
    /\ response.user = response.username
    /\ \E p \in Range(response.object_list) :
        /\ ~posts[p].is_published
        /\ posts[p].pub_date > now
        /\ posts[p].category = NoCategory

IntegrityInv ==
    /\ \A c \in DOMAIN comments : comments[c].posts \in DOMAIN posts
    /\ \A p \in DOMAIN posts :
        posts[p].category = NoCategory \/ posts[p].category \in DOMAIN categories

CategoryDeleteEffect ==
    response'.view = "admin:category_delete" =>
        /\ DOMAIN posts' = DOMAIN posts
        /\ \A p \in DOMAIN posts :
            /\ posts'[p].category =
                  IF posts[p].category = response'.category_id
                  THEN NoCategory ELSE posts[p].category
            /\ [posts'[p] EXCEPT !.category = NoCategory] =
                  [posts[p] EXCEPT !.category = NoCategory]
        /\ comments' = comments

PostDeleteEffect ==
    (response'.view = "blog:delete_post" /\ response'.by = "DeleteView"
        /\ response'.status = 302) =>
        /\ DOMAIN posts' = DOMAIN posts \ {response'.post_id}
        /\ DOMAIN comments' =
              {c \in DOMAIN comments : comments[c].posts # response'.post_id}
        /\ \A c \in DOMAIN comments' : comments'[c] = comments[c]

\* C9: every comment's parent post exists and every post's category is null
\* or exists; deleting a category deletes no post and only nulls the category
\* of the posts that pointed to it; deleting a post deletes exactly its
\* comments.
C9_ReferentialIntegrity ==
    /\ []IntegrityInv
    /\ [][CategoryDeleteEffect /\ PostDeleteEffect]_vars

\* C9 witness: a category was deleted and a post that has a comment is left
\* with a null category.
C9_Witness ==
    /\ response.view = "admin:category_delete"
    /\ \E c \in DOMAIN comments : posts[comments[c].posts].category = NoCategory

\* C10: the profile data of a user changes only in a profile-edit request
\* made by that user.
C10_ProfileEditOnlyByOwner ==
    [][\A u \in Users :
        profile'[u] # profile[u] =>
            (response'.view = "blog:edit_profile" /\ response'.user = u)]_vars

====
